---- MODULE Spec2Model ----
(***************************************************************************)
(* Command execution core of agent-neuraops:                               *)
(*   backend/services/engine.ts   - validateCommand, executeTerminalCommand*)
(*                                  executeTerminalCommands, killProcess   *)
(*   backend/services/commands.ts - UnifiedCommandExecutor                 *)
(* Strings are sequences of one-character strings, so that toLowerCase,    *)
(* trim, includes and startsWith are computed as the code computes them.   *)
(***************************************************************************)
EXTENDS Integers, Sequences, FiniteSets, TLC

VARIABLES
    command,          \* validateCommand: the argument of the call under test
    validation,       \* validateCommand: the returned {safe, reason}, or the "idle" marker
    activeProcesses,  \* engine.ts:70, the keys of the Map (proc_<n> is n)
    processCounter,   \* engine.ts:71
    children,         \* the ChildProcess objects made by exec/spawn, by processId
    timers,           \* pending setTimeout callbacks, with the delay left
    req,              \* the executeTerminalCommands calls in flight, one per request
    signals,          \* history: the kill() calls made, and what they met
    skipped,          \* history: timer callbacks whose guard was false
    runningProcesses, \* commands.ts:30, the keys of the Map of the executor
    bg,               \* the children made by executeBackground, by processId
    replies,          \* history: the CommandResults the executor returned
    listing,          \* the last answer of listProcesses (ids), with the
                      \* processes that were alive when it was given (live)
    parser,           \* two executeTerminalCommands calls reading one text: the
                      \* lastIndex of their regex objects and what they extracted
    workdir,          \* one executeTerminalCommand call with a working directory
    chain,            \* one executeCommand call of commands.ts on a command string
    retry             \* one generateResponse call under retryWithBackoff

(***************************************************************************)
(* String primitives (String.prototype.toLowerCase / trim / includes /     *)
(* startsWith as used by engine.ts:90-106)                                  *)
(***************************************************************************)
UpperLetters ==
    <<"A", "B", "C", "D", "E", "F", "G", "H", "I", "J", "K", "L", "M",
      "N", "O", "P", "Q", "R", "S", "T", "U", "V", "W", "X", "Y", "Z">>

LowerLetters ==
    <<"a", "b", "c", "d", "e", "f", "g", "h", "i", "j", "k", "l", "m",
      "n", "o", "p", "q", "r", "s", "t", "u", "v", "w", "x", "y", "z">>

LowerChar(c) ==
    IF \E i \in 1..26 : UpperLetters[i] = c
    THEN LowerLetters[CHOOSE i \in 1..26 : UpperLetters[i] = c]
    ELSE c

UpperChar(c) ==
    IF \E i \in 1..26 : LowerLetters[i] = c
    THEN UpperLetters[CHOOSE i \in 1..26 : LowerLetters[i] = c]
    ELSE c

toLowerCase(s) == [i \in 1..Len(s) |-> LowerChar(s[i])]

toUpperCase(s) == [i \in 1..Len(s) |-> UpperChar(s[i])]

WhiteSpace == {" ", "\t", "\n"}

trim(s) ==
    LET keep == {i \in 1..Len(s) : s[i] \notin WhiteSpace} IN
    IF keep = {} THEN <<>>
    ELSE LET lo == CHOOSE i \in keep : \A k \in keep : i <= k
             hi == CHOOSE i \in keep : \A k \in keep : i >= k
         IN  SubSeq(s, lo, hi)

startsWith(s, p) == Len(p) <= Len(s) /\ SubSeq(s, 1, Len(p)) = p

includes(s, p) ==
    \E i \in 1..(Len(s) - Len(p) + 1) : SubSeq(s, i, i + Len(p) - 1) = p

(***************************************************************************)
(* Safety policy, engine.ts:74-111                                         *)
(***************************************************************************)
DANGEROUS_COMMANDS ==
    << <<"r", "m", " ", "-", "r", "f", " ", "/">>,
       <<"m", "k", "f", "s">>,
       <<"d", "d", " ", "i", "f", "=">>,
       <<"s", "h", "u", "t", "d", "o", "w", "n">>,
       <<"r", "e", "b", "o", "o", "t">>,
       <<"h", "a", "l", "t">>,
       <<"i", "n", "i", "t", " ", "0">>,
       <<"i", "n", "i", "t", " ", "6">>,
       <<":", "(", ")", "{", " ", ":", "|", ":", "&", " ", "}", ";", ":">>,
       <<"c", "h", "m", "o", "d", " ", "-", "R", " ", "7", "7", "7", " ", "/">>,
       <<"c", "h", "o", "w", "n", " ", "-", "R", " ", "r", "o", "o", "t", " ", "/">> >>

EscalationPatterns ==
    { <<"s", "u", "d", "o", " ", "s", "u">>, <<"s", "u", " ", "-">> }

systemCommands ==
    { <<"p", "a", "s", "s", "w", "d">>, <<"u", "s", "e", "r", "m", "o", "d">>,
      <<"u", "s", "e", "r", "d", "e", "l">>, <<"g", "r", "o", "u", "p", "m", "o", "d">> }

\* the deny-list test of one entry, engine.ts:94
DangerousMatchCaseSensitive(lowerCommand, dangerous) ==
    includes(lowerCommand, dangerous)

DangerousMatch(lowerCommand, dangerous) ==
    includes(lowerCommand, toLowerCase(dangerous))

\* reason.pattern is the index of the deny-list entry named in the reason (0: none)
validateCommand(c) ==
    LET lowerCommand == trim(toLowerCase(c))
        hits == {k \in 1..Len(DANGEROUS_COMMANDS) :
                    DangerousMatch(lowerCommand, DANGEROUS_COMMANDS[k])}
    IN  IF hits # {}
        THEN [safe |-> FALSE, reason |-> "Dangerous command detected",
              pattern |-> CHOOSE k \in hits : \A h \in hits : k <= h]
        ELSE IF \E p \in EscalationPatterns : includes(lowerCommand, p)
        THEN [safe |-> FALSE, reason |-> "Privilege escalation not allowed", pattern |-> 0]
        ELSE IF \E p \in systemCommands : startsWith(lowerCommand, p)
        THEN [safe |-> FALSE,
              reason |-> "System modification commands require explicit permission",
              pattern |-> 0]
        ELSE [safe |-> TRUE, reason |-> "", pattern |-> 0]

(***************************************************************************)
(* Inputs of the safety-policy specification: a command is                 *)
(* prefix ++ core ++ suffix, the core being a deny-list entry (as written, *)
(* lower-cased or upper-cased), a privilege or account word, or harmless.  *)
(***************************************************************************)
CmdPrefixes ==
    { <<>>, <<" ", " ">>, <<"e", "c", "h", "o", " ">>, <<"\t">>,
      <<"S", "u", "d", "o", " ">> }

CmdSuffixes ==
    { <<>>, <<" ">>, <<" ", "n", "o", "w">>, <<"\n">>, <<"_", "g", "e", "n">> }

HarmlessCores ==
    { <<"l", "s">>, <<"r", "m", " ", "-", "r", "f">>, <<"i", "n", "i", "t", " ", "5">>,
      <<"c", "h", "m", "o", "d", " ", "7", "7", "7">>, <<>> }

CmdCores ==
    {DANGEROUS_COMMANDS[k] : k \in 1..Len(DANGEROUS_COMMANDS)}
    \cup {toLowerCase(DANGEROUS_COMMANDS[k]) : k \in 1..Len(DANGEROUS_COMMANDS)}
    \cup {toUpperCase(DANGEROUS_COMMANDS[k]) : k \in 1..Len(DANGEROUS_COMMANDS)}
    \cup EscalationPatterns \cup systemCommands
    \cup {toUpperCase(p) : p \in systemCommands}
    \cup HarmlessCores

PolicyInputs == {p \o c \o s : p \in CmdPrefixes, c \in CmdCores, s \in CmdSuffixes}


(***************************************************************************)
(* Directive text.  A reply text is a sequence of fenced blocks.  A block  *)
(* of form "json" is matched by terminalCommandRegex (engine.ts:344); a    *)
(* block of form "plain", and a json block whose body stands on its own    *)
(* lines (lines = TRUE), is matched by simpleTerminalRegex (engine.ts:345).*)
(***************************************************************************)
LS == <<"l", "s">>

RMRF == <<"r", "m", " ", "-", "R", "f", " ", "/">>

\* a command that writes more than MAX_OUTPUT_SIZE to stdout and exits 0
YES == <<"y", "e", "s">>

\* a command that names no program
NOSUCH == <<"n", "o", "s", "u", "c", "h">>

COMMENT == <<" ", "#", " ", "l", "s">>

BLANK == <<" ", " ">>

NoCmd == <<>>

MAX_COMMAND_TIMEOUT == 30000

GRACE_MS == 5000

\* engine.ts:65
MAX_OUTPUT_SIZE == 1024 * 1024

OverCap == MAX_OUTPUT_SIZE + 1

LONG_TIMEOUT == 2 * MAX_COMMAND_TIMEOUT

J(op, cmd, wd, timeout, pid, lines) ==
    [form |-> "json", op |-> op, cmd |-> cmd, wd |-> wd, timeout |-> timeout,
     pid |-> pid, lines |-> lines, body |-> <<>>]

P(body) ==
    [form |-> "plain", op |-> "", cmd |-> NoCmd, wd |-> "absent", timeout |-> 0,
     pid |-> 0, lines |-> TRUE, body |-> body]

\* the text of a json body, as simpleTerminalRegex captures it
JsonText(b) ==
    <<"{", "\"", "c", "o", "m", "m", "a", "n", "d", "\"", ":", "\"">> \o b.cmd \o <<"\"", "}">>

Blocks ==
    { J("execute", LS, "absent", 0, 0, FALSE),
      J("execute", LS, "absent", LONG_TIMEOUT, 0, FALSE),
      J("execute", RMRF, "absent", 0, 0, FALSE),
      J("execute", LS, "nonstring", 0, 0, FALSE),
      J("execute", NoCmd, "absent", 0, 0, FALSE),
      J("interactive", LS, "absent", 0, 0, FALSE),
      J("interactive", NoCmd, "absent", 0, 0, FALSE),
      J("execute", YES, "absent", 0, 0, FALSE),
      J("interactive", YES, "absent", 0, 0, FALSE),
      J("execute", NOSUCH, "absent", 0, 0, FALSE),
      J("interactive", NOSUCH, "absent", 0, 0, FALSE),
      J("kill", NoCmd, "absent", 0, 1, FALSE),
      J("kill", NoCmd, "absent", 0, 0, FALSE),
      J("list_processes", NoCmd, "absent", 0, 0, FALSE),
      J("list_processes", NoCmd, "absent", 0, 0, TRUE),
      J("background", LS, "absent", 0, 0, FALSE),
      J("", LS, "absent", 0, 0, FALSE),
      J("malformed", NoCmd, "absent", 0, 0, FALSE),
      J("malformed", NoCmd, "absent", 0, 0, TRUE),
      P(<<LS>>),
      P(<<BLANK, RMRF, COMMENT>>) }

\* the blocks of the specification of the process lifecycle
LifeBlocks ==
    { J("execute", LS, "absent", 0, 0, FALSE),
      J("execute", LS, "absent", LONG_TIMEOUT, 0, FALSE),
      J("interactive", LS, "absent", 0, 0, FALSE),
      J("kill", NoCmd, "absent", 0, 1, FALSE),
      J("list_processes", NoCmd, "absent", 0, 0, FALSE),
      P(<<LS>>) }

\* what the request that runs beside the first one carries
ConcurrentTexts ==
    { << J("kill", NoCmd, "absent", 0, 1, FALSE) >> }

MaxBlocks == 2

Requests == {"r1", "r2"}

SeqsUpTo(S, n) == UNION {[1..m -> S] : m \in 0..n}

MainTexts == SeqsUpTo(LifeBlocks, MaxBlocks)

DispatchTexts == SeqsUpTo(Blocks, MaxBlocks)

(***************************************************************************)
(* The matches of the two regex loops, in the order the loops visit them   *)
(* (engine.ts:350 and engine.ts:456-459).                                  *)
(***************************************************************************)
KeepLineAll(l) == trim(l) # <<>>

\* the filter of engine.ts:457
KeepLine(l) == trim(l) # <<>> /\ ~ startsWith(trim(l), <<"#">>)

BlockLines(b) == IF b.form = "plain" THEN b.body ELSE <<JsonText(b)>>

KeptLines(b) == SelectSeq(BlockLines(b), KeepLine)

RECURSIVE JsonOpsFrom(_, _)
JsonOpsFrom(text, b) ==
    IF b > Len(text) THEN <<>>
    ELSE (IF text[b].form = "json"
          THEN << [src |-> "json", block |-> b, op |-> text[b].op, cmd |-> text[b].cmd,
                   wd |-> text[b].wd, timeout |-> text[b].timeout, pid |-> text[b].pid] >>
          ELSE <<>>)
         \o JsonOpsFrom(text, b + 1)

RECURSIVE PlainOpsFrom(_, _)
PlainOpsFrom(text, b) ==
    IF b > Len(text) THEN <<>>
    ELSE (IF text[b].form = "plain" \/ text[b].lines
          THEN [l \in 1..Len(KeptLines(text[b])) |->
                   [src |-> "plain", block |-> b, op |-> "execute",
                    cmd |-> trim(KeptLines(text[b])[l]),
                    wd |-> "absent", timeout |-> 0, pid |-> 0]]
          ELSE <<>>)
         \o PlainOpsFrom(text, b + 1)

Ops(text) == JsonOpsFrom(text, 1) \o PlainOpsFrom(text, 1)

(***************************************************************************)
(* Results (TerminalResult, engine.ts:24-32).  exitCode is written as a    *)
(* string so that null is a value; processId 0 is an absent processId;     *)
(* stdout is a sequence of characters.                                     *)
(* captured is the length of stdout when it is the output of a child.      *)
(* block, src, timedOut, bySignal, produced and spawnFailed are history    *)
(* fields.                                                                 *)
(***************************************************************************)
Result(op, success, stdout, stderr, exitCode, processId) ==
    [success |-> success, stdout |-> stdout, stderr |-> stderr, exitCode |-> exitCode,
     processId |-> processId, listed |-> {}, block |-> op.block, src |-> op.src,
     timedOut |-> FALSE, bySignal |-> FALSE, captured |-> 0, produced |-> 0,
     spawnFailed |-> FALSE]

NoChild ==
    [state |-> "none", mode |-> "", term |-> "no", killed |-> FALSE,
     owner |-> "", op |-> 0, timeout |-> 0, age |-> 0, timedOut |-> FALSE,
     explicitKill |-> FALSE, graceOver |-> FALSE]

AgeCap == 2 * MAX_COMMAND_TIMEOUT + 2 * GRACE_MS

Running(id) == id \in DOMAIN children /\ children[id].state = "running"

\* a delivered signal the process dies of: SIGKILL, or SIGTERM unless the
\* program running in the child ignores it (term = "ignored")
Fatal(c) == c.killed \/ c.term = "fatal"

\* ChildProcess.kill(sig) on the child object: the signal reaches a live
\* process; ignores tells whether that process turns out to ignore SIGTERM
Deliver(c, sig, ignores) ==
    IF c.state # "running" THEN c
    ELSE IF sig = "SIGKILL" THEN [c EXCEPT !.killed = TRUE]
    ELSE IF c.term = "no" THEN [c EXCEPT !.term = IF ignores THEN "ignored" ELSE "fatal"]
    ELSE c

Sent(sig, id, origin) ==
    [sig |-> sig, id |-> id, origin |-> origin,
     registered |-> id \in activeProcesses, running |-> Running(id)]

CurOp(r) == req[r].ops[req[r].k]

HasOp(r) == req[r].st = "run" /\ req[r].k <= Len(req[r].ops)

PushStopsOnFailure(r, res) ==
    [req EXCEPT ![r].results = Append(@, res), ![r].k = @ + 1,
                ![r].st = IF req[r].k + 1 > Len(req[r].ops) \/ ~ res.success
                          THEN "done" ELSE "run",
                ![r].wait = 0]

\* results.push(result) and on to the next match
\* (return results, engine.ts:467, follows the last match in the same turn)
Push(r, res) ==
    [req EXCEPT ![r].results = Append(@, res), ![r].k = @ + 1,
                ![r].st = IF req[r].k + 1 > Len(req[r].ops) THEN "done" ELSE "run",
                ![r].wait = 0]

(***************************************************************************)
(* validateWorkingDir, engine.ts:114-128: path.resolve throws on a value   *)
(* that is not a string, and the catch rethrows                            *)
(***************************************************************************)
ResolvableNever(wd) == FALSE

Resolvable(wd) == wd # "nonstring"

(***************************************************************************)
(* executeTerminalCommand up to the spawn, engine.ts:131-168               *)
(***************************************************************************)
EffectiveTimeout(op) == IF op.timeout = 0 THEN MAX_COMMAND_TIMEOUT ELSE op.timeout

PolicyOutcomeOpen(op, interactive) == "spawn"

PolicyOutcome(op, interactive) ==
    IF ~ validateCommand(op.cmd).safe THEN "rejected"
    ELSE IF ~ Resolvable(op.wd) THEN "throws"
    ELSE "spawn"

RejectedResult(op, id) ==
    Result(op, FALSE, <<>>, validateCommand(op.cmd).reason, "-1", id)

\* the catch of the structured loop, engine.ts:443-452
CaughtResult(op, message) ==
    Result(op, FALSE, <<>>, message, "-1", 0)

SpawnChild(r, id, mode, timeout) ==
    /\ children' = children @@ (id :>
           [NoChild EXCEPT !.state = "running", !.mode = mode,
                           !.owner = r, !.op = req[r].k, !.timeout = timeout])
    /\ activeProcesses' = activeProcesses \cup {id}
    /\ timers' = timers \cup {[kind |-> "timeout", id |-> id, left |-> timeout]}
    /\ req' = [req EXCEPT ![r].st = "await", ![r].wait = id]

NewProcessIdStuck == IF processCounter = 0 THEN 1 ELSE processCounter

\* proc_${++processCounter}, engine.ts:133
NewProcessId == processCounter + 1

ExecuteTerminalCommand(r, op, interactive, structured) ==
    LET id == NewProcessId
        outcome == PolicyOutcome(op, interactive)
    IN  /\ processCounter' = id
        /\ UNCHANGED <<signals, skipped>>
        /\ IF outcome = "rejected"
           THEN /\ req' = Push(r, RejectedResult(op, id))
                /\ children' = children @@ (id :> NoChild)
                /\ UNCHANGED <<activeProcesses, timers>>
           ELSE IF outcome = "throws"
           THEN /\ req' = IF structured
                          THEN Push(r, CaughtResult(op,
                                   "Terminal command error: Invalid working directory"))
                          ELSE [req EXCEPT ![r].st = "threw"]
                /\ children' = children @@ (id :> NoChild)
                /\ UNCHANGED <<activeProcesses, timers>>
           ELSE SpawnChild(r, id, IF interactive THEN "spawn" ELSE "exec",
                           EffectiveTimeout(op))

Idle == [safe |-> FALSE, reason |-> "idle", pattern |-> 0]

(***************************************************************************)
(* The structured loop, engine.ts:350-453                                  *)
(***************************************************************************)
Verbs == {"execute", "interactive", "kill", "list_processes"}

Malformed(op) == op.src = "json" /\ op.op = "malformed"

\* a directive the switch answers without calling anything, engine.ts:355-442
InvalidDirective(op) ==
    /\ op.src = "json"
    /\ ~ Malformed(op)
    /\ \/ op.op = ""
       \/ op.op \in {"execute", "interactive"} /\ op.cmd = NoCmd
       \/ op.op = "kill" /\ op.pid = 0
       \/ op.op # "" /\ op.op \notin Verbs

InvalidMessage(op) ==
    IF op.op = "" THEN "Invalid terminal command: missing operation"
    ELSE IF op.op = "execute" THEN "Execute operation requires command"
    ELSE IF op.op = "interactive" THEN "Interactive operation requires command"
    ELSE IF op.op = "kill" THEN "Kill operation requires processId"
    ELSE "Unknown terminal operation"

InvalidResultAccepted(op) == Result(op, TRUE, <<>>, "", "0", 0)

InvalidResult(op) == Result(op, FALSE, <<>>, InvalidMessage(op), "-1", 0)

engineRest == <<activeProcesses, processCounter, children, timers, signals, skipped>>

policyVars == <<command, validation>>

executorVars == <<runningProcesses, bg, replies, listing>>

inputVars == <<parser, workdir, chain, retry>>

JsonInvalid(r) ==
    /\ HasOp(r)
    /\ InvalidDirective(CurOp(r))
    /\ req' = Push(r, InvalidResult(CurOp(r)))
    /\ UNCHANGED engineRest
    /\ UNCHANGED <<policyVars, executorVars, inputVars>>

\* JSON.parse throws and the catch answers, engine.ts:353 and 443-452
JsonMalformed(r) ==
    /\ HasOp(r)
    /\ Malformed(CurOp(r))
    /\ req' = Push(r, CaughtResult(CurOp(r), "Terminal command error: JSON parse error"))
    /\ UNCHANGED engineRest
    /\ UNCHANGED <<policyVars, executorVars, inputVars>>

\* case 'execute' and case 'interactive' with a command, engine.ts:368-396
JsonExecute(r) ==
    /\ HasOp(r)
    /\ CurOp(r).src = "json"
    /\ CurOp(r).op \in {"execute", "interactive"}
    /\ CurOp(r).cmd # NoCmd
    /\ ExecuteTerminalCommand(r, CurOp(r), CurOp(r).op = "interactive", TRUE)
    /\ UNCHANGED <<policyVars, executorVars, inputVars>>

(***************************************************************************)
(* killProcess, engine.ts:308-327, and case 'kill', engine.ts:398-419      *)
(***************************************************************************)
\* activeProcesses.delete(processId), engine.ts:322
KillRemoves(id) == activeProcesses \ {id}

\* the text of engine.ts:311 after the mark and the processId
NotFoundMessage ==
    <<"P", "r", "o", "c", "e", "s", "s", " ", "n", "o", "t", " ", "f", "o", "u", "n", "d",
      " ", "o", "r", " ", "a", "l", "r", "e", "a", "d", "y", " ",
      "t", "e", "r", "m", "i", "n", "a", "t", "e", "d">>

\* the mark killProcess puts in front of a failure, which case 'kill' looks for
\* (engine.ts:311, 325 and 412, 415)
FailureMark == <<"X">>

KillResultText(found) ==
    IF found THEN <<"O", "K", " ", "t", "e", "r", "m", "i", "n", "a", "t", "e", "d">>
    ELSE FailureMark \o <<" ">> \o NotFoundMessage

KillResultMarkIgnored(op, killResult) == Result(op, TRUE, killResult, "", "0", 0)

\* the result case 'kill' builds from the text killProcess returned, engine.ts:411-418
KillResult(op, killResult) ==
    Result(op, ~ includes(killResult, FailureMark), killResult, "",
           IF includes(killResult, FailureMark) THEN "-1" ELSE "0", 0)

JsonKill(r) ==
    /\ HasOp(r)
    /\ CurOp(r).src = "json"
    /\ CurOp(r).op = "kill"
    /\ CurOp(r).pid # 0
    /\ LET id == CurOp(r).pid IN
       IF id \notin activeProcesses
       THEN /\ req' = Push(r, KillResult(CurOp(r), KillResultText(FALSE)))
            /\ UNCHANGED engineRest
       ELSE /\ signals' = signals \cup {Sent("SIGTERM", id, "kill")}
            /\ \E ignores \in BOOLEAN :
                  children' = [children EXCEPT ![id] =
                      [Deliver(@, "SIGTERM", ignores) EXCEPT !.explicitKill = TRUE]]
            /\ timers' = timers \cup {[kind |-> "killGrace", id |-> id, left |-> GRACE_MS]}
            /\ activeProcesses' = KillRemoves(id)
            /\ req' = Push(r, KillResult(CurOp(r), KillResultText(TRUE)))
            /\ UNCHANGED <<processCounter, skipped>>
    /\ UNCHANGED <<policyVars, executorVars, inputVars>>

\* listActiveProcesses and case 'list_processes', engine.ts:329-339, 421-431
JsonList(r) ==
    /\ HasOp(r)
    /\ CurOp(r).src = "json"
    /\ CurOp(r).op = "list_processes"
    /\ req' = Push(r, [Result(CurOp(r), TRUE, <<"A", "c", "t", "i", "v", "e">>, "", "0", 0)
                          EXCEPT !.listed = activeProcesses])
    /\ UNCHANGED engineRest
    /\ UNCHANGED <<policyVars, executorVars, inputVars>>

(***************************************************************************)
(* The plain loop, engine.ts:456-465                                       *)
(***************************************************************************)
PlainExecute(r) ==
    /\ HasOp(r)
    /\ CurOp(r).src = "plain"
    /\ ExecuteTerminalCommand(r, CurOp(r), FALSE, FALSE)
    /\ UNCHANGED <<policyVars, executorVars, inputVars>>

\* return results, engine.ts:467, of a text in which neither regex matches
Return(r) ==
    /\ req[r].st = "run"
    /\ req[r].k > Len(req[r].ops)
    /\ req' = [req EXCEPT ![r].st = "done"]
    /\ UNCHANGED engineRest
    /\ UNCHANGED <<policyVars, executorVars, inputVars>>

(***************************************************************************)
(* The child's end: the exec callback (engine.ts:197-211) and the 'close'  *)
(* handler of the interactive child (engine.ts:259-273).  code is the exit *)
(* code the process ended with, "null" when a signal ended it.             *)
(***************************************************************************)
\* exitCode: error ? error.code || -1 : 0, engine.ts:204
ExecExitCode(code) == IF code = "null" THEN "-1" ELSE code

\* how the process of a child ends when no signal ends it: the exit code and
\* the number of bytes it wrote to stdout
Ends(c, cmd) ==
    IF Fatal(c) THEN {[code |-> "null", produced |-> 0]}
    ELSE IF cmd = NOSUCH THEN {[code |-> "127", produced |-> 0]}
    ELSE IF cmd = YES THEN {[code |-> "0", produced |-> OverCap]}
    ELSE {[code |-> "0", produced |-> 0], [code |-> "1", produced |-> 0]}

\* the callback of exec, engine.ts:197-211.  With maxBuffer (engine.ts:195) exec
\* keeps MAX_OUTPUT_SIZE of the output, ends the child and reports an error
\* whose code is ERR_CHILD_PROCESS_STDIO_MAXBUFFER.
ExecResult(op, c, id, end) ==
    LET overflow == end.produced > MAX_OUTPUT_SIZE
        error    == overflow \/ end.code # "0"
        code     == IF overflow THEN "ERR_CHILD_PROCESS_STDIO_MAXBUFFER" ELSE end.code
    IN  [Result(op, ~ error, <<>>, IF error THEN "error.message" ELSE "",
                IF error THEN ExecExitCode(code) ELSE "0", id)
            EXCEPT !.captured = IF overflow THEN MAX_OUTPUT_SIZE ELSE end.produced]

\* the 'close' handler, engine.ts:259-273, after the 'data' handlers, 251-257
SpawnResult(op, c, id, end) ==
    [Result(op, end.code = "0", <<>>, "", end.code, id)
        EXCEPT !.captured = end.produced]

CloseResult(op, c, id, end) ==
    [(IF c.mode = "exec" THEN ExecResult(op, c, id, end) ELSE SpawnResult(op, c, id, end))
        EXCEPT !.timedOut = c.timedOut, !.bySignal = Fatal(c), !.produced = end.produced]

EntryKept(id) == activeProcesses

\* activeProcesses.delete(processId), engine.ts:198, 260, 276
EntryDeleted(id) == activeProcesses \ {id}

\* the command of a child
CommandOf(id) == req[children[id].owner].ops[children[id].op].cmd

\* spawn() finds no program to run: the child emits 'error'
SpawnFails(id) ==
    Running(id) /\ children[id].mode = "spawn" /\ CommandOf(id) = NOSUCH

ChildClose(id) ==
    /\ Running(id)
    /\ ~ SpawnFails(id)
    /\ LET c == children[id]
           r == c.owner
       IN  \E end \in Ends(c, CommandOf(id)) :
              /\ activeProcesses' = EntryDeleted(id)
              /\ children' = [children EXCEPT ![id] =
                                 [NoChild EXCEPT !.state = "exited",
                                                 !.explicitKill = c.explicitKill,
                                                 !.graceOver = c.graceOver]]
              /\ req' = Push(r, CloseResult(req[r].ops[c.op], c, id, end))
    /\ UNCHANGED <<processCounter, timers, signals, skipped>>
    /\ UNCHANGED <<policyVars, executorVars, inputVars>>

\* the 'error' handler of the interactive child, engine.ts:275-289
ErrorResult(op, id) ==
    [Result(op, FALSE, <<>>, "error.message", "-1", id) EXCEPT !.spawnFailed = TRUE]

ChildError(id) ==
    /\ SpawnFails(id)
    /\ activeProcesses' = EntryDeleted(id)
    /\ children' = [children EXCEPT ![id] = [NoChild EXCEPT !.state = "failed"]]
    /\ req' = Push(children[id].owner,
                   ErrorResult(req[children[id].owner].ops[children[id].op], id))
    /\ UNCHANGED <<processCounter, timers, signals, skipped>>
    /\ UNCHANGED <<policyVars, executorVars, inputVars>>

(***************************************************************************)
(* Timers.  exec() was given the timeout option (engine.ts:194): Node sends*)
(* SIGTERM itself when the delay ends and the child has not ended; that    *)
(* timer was created before the one of engine.ts:216 with the same delay,  *)
(* so both run in the same turn, Node's first.                             *)
(***************************************************************************)
GuardAlways(id) == TRUE

\* if (activeProcesses.has(processId)), engine.ts:217, 220, 295, 298, 317
Guard(id) == id \in activeProcesses

TimeoutFire(t) ==
    /\ t \in timers /\ t.kind = "timeout" /\ t.left = 0
    /\ LET id == t.id
           c == children[id]
           live == c.state = "running"
           lib == c.mode = "exec" /\ live
           mine == Guard(id)
       IN  /\ signals' = signals
                \cup (IF lib THEN {Sent("SIGTERM", id, "exec")} ELSE {})
                \cup (IF mine THEN {Sent("SIGTERM", id, "timeout")} ELSE {})
           /\ skipped' = IF mine THEN skipped ELSE skipped \cup {[kind |-> "timeout", id |-> id]}
           /\ \E ignores \in BOOLEAN :
                 children' = [children EXCEPT ![id] =
                    IF live
                    THEN [(IF lib \/ mine THEN Deliver(c, "SIGTERM", ignores) ELSE c)
                             EXCEPT !.timedOut = TRUE]
                    ELSE c]
           /\ timers' = (timers \ {t})
                \cup (IF mine THEN {[kind |-> "grace", id |-> id, left |-> GRACE_MS]} ELSE {})
    /\ UNCHANGED <<activeProcesses, processCounter, req>>
    /\ UNCHANGED <<policyVars, executorVars, inputVars>>

\* the nested timer, engine.ts:219-223 and 297-301
GraceFire(t) ==
    /\ t \in timers /\ t.kind = "grace" /\ t.left = 0
    /\ IF Guard(t.id)
       THEN /\ signals' = signals \cup {Sent("SIGKILL", t.id, "grace")}
            /\ children' = [children EXCEPT ![t.id] = Deliver(@, "SIGKILL", FALSE)]
            /\ UNCHANGED skipped
       ELSE /\ skipped' = skipped \cup {[kind |-> "grace", id |-> t.id]}
            /\ UNCHANGED <<signals, children>>
    /\ timers' = timers \ {t}
    /\ UNCHANGED <<activeProcesses, processCounter, req>>
    /\ UNCHANGED <<policyVars, executorVars, inputVars>>

\* the timer of killProcess, engine.ts:316-320
KillGraceFire(t) ==
    /\ t \in timers /\ t.kind = "killGrace" /\ t.left = 0
    /\ IF Guard(t.id)
       THEN /\ signals' = signals \cup {Sent("SIGKILL", t.id, "killGrace")}
            /\ children' = [children EXCEPT ![t.id] =
                               [Deliver(@, "SIGKILL", FALSE) EXCEPT !.graceOver = TRUE]]
            /\ UNCHANGED skipped
       ELSE /\ skipped' = skipped \cup {[kind |-> "killGrace", id |-> t.id]}
            /\ children' = [children EXCEPT ![t.id].graceOver = TRUE]
            /\ UNCHANGED signals
    /\ timers' = timers \ {t}
    /\ UNCHANGED <<activeProcesses, processCounter, req>>
    /\ UNCHANGED <<policyVars, executorVars, inputVars>>

(***************************************************************************)
(* Time passes up to the next timer that is due; with no timer pending it  *)
(* passes in steps of the grace window.  A process that was sent a signal  *)
(* it dies of ends before time passes.                                     *)
(***************************************************************************)
Min(a, b) == IF a <= b THEN a ELSE b

NextDelay ==
    IF timers = {} THEN GRACE_MS
    ELSE CHOOSE d \in {t.left : t \in timers} : \A t \in timers : d <= t.left

Tick ==
    /\ NextDelay > 0
    /\ \/ timers # {}
       \/ \E id \in DOMAIN children : Running(id) /\ children[id].age < AgeCap
    /\ \A id \in DOMAIN children : Running(id) => ~ Fatal(children[id])
    /\ \A id \in DOMAIN children : ~ SpawnFails(id)
    /\ timers' = {[t EXCEPT !.left = @ - NextDelay] : t \in timers}
    /\ children' = [id \in DOMAIN children |->
                       IF Running(id)
                       THEN [children[id] EXCEPT !.age = Min(@ + NextDelay, AgeCap)]
                       ELSE children[id]]
    /\ UNCHANGED <<activeProcesses, processCounter, req, signals, skipped>>
    /\ UNCHANGED <<policyVars, executorVars, inputVars>>

NoRequest ==
    [st |-> "run", text |-> <<>>, ops |-> <<>>, k |-> 1, results |-> <<>>, wait |-> 0]

PolicyIdle == command = <<>> /\ validation = Idle

NoParse == [text |-> <<>>, lastIndex |-> <<>>, calls |-> <<>>]

NoDir ==
    [status |-> "none", input |-> [kind |-> "absent", abs |-> TRUE, segs |-> <<>>],
     cwd |-> <<>>, warned |-> FALSE]

NoChain ==
    [st |-> "idle", input |-> <<>>, commandString |-> <<>>, continueOnError |-> FALSE,
     chained |-> FALSE, commands |-> <<>>, k |-> 0, started |-> <<>>, results |-> <<>>]

NoError == [call |-> 0, stage |-> ""]

NoRetry ==
    [st |-> "idle", maxRetries |-> 0, baseDelay |-> 0, attempt |-> 0, calls |-> 0,
     saves |-> <<>>, outcomes |-> <<>>, errors |-> <<>>, waits |-> <<>>,
     value |-> 0, thrown |-> NoError, assistantStored |-> 0]

InputIdle == parser = NoParse /\ workdir = NoDir /\ chain = NoChain /\ retry = NoRetry

EngineIdle ==
    /\ activeProcesses = {}
    /\ processCounter = 0
    /\ children = <<>>
    /\ timers = {}
    /\ signals = {}
    /\ skipped = {}

ExecutorIdle ==
    /\ runningProcesses = {}
    /\ bg = <<>>
    /\ replies = {}
    /\ listing = [ids |-> {}, live |-> {}]

Init ==
    /\ PolicyIdle
    /\ EngineIdle
    /\ ExecutorIdle
    /\ InputIdle
    /\ \E t1 \in MainTexts, t2 \in ConcurrentTexts :
          req = [r \in Requests |->
                    LET t == IF r = "r1" THEN t1 ELSE t2
                    IN  [NoRequest EXCEPT !.text = t, !.ops = Ops(t)]]

Next ==
    \/ \E r \in Requests : JsonExecute(r)
    \/ \E r \in Requests : JsonKill(r)
    \/ \E r \in Requests : JsonList(r)
    \/ \E r \in Requests : PlainExecute(r)
    \/ \E r \in Requests : Return(r)
    \/ \E id \in DOMAIN children : ChildClose(id)
    \/ \E t \in timers : TimeoutFire(t)
    \/ \E t \in timers : GraceFire(t)
    \/ \E t \in timers : KillGraceFire(t)
    \/ Tick

(***************************************************************************)
(* UnifiedCommandExecutor, commands.ts:29-417: background processes.       *)
(* A processId bg_<time>_<random> is written as the number of the spawn.   *)
(***************************************************************************)
MaxBackground == 2

UnknownId == MaxBackground + 1

Reply(cmd, success, id) == [command |-> cmd, success |-> success, id |-> id]

\* executeBackground up to the registration, commands.ts:129-139
ExecuteBackground ==
    /\ Len(bg) < MaxBackground
    /\ bg' = Append(bg, [state |-> "spawning", term |-> "no", killedById |-> FALSE])
    /\ runningProcesses' = runningProcesses \cup {Len(bg) + 1}
    /\ UNCHANGED <<replies, listing>>
    /\ UNCHANGED <<policyVars, req, engineRest, inputVars>>

\* child.on('spawn'), commands.ts:151-159: the call resolves with the processId
BgSpawned(id) ==
    /\ bg[id].state = "spawning"
    /\ bg' = [bg EXCEPT ![id].state = "running"]
    /\ replies' = replies \cup {Reply("background", TRUE, id)}
    /\ UNCHANGED <<runningProcesses, listing>>
    /\ UNCHANGED <<policyVars, req, engineRest, inputVars>>

\* child.on('error'), commands.ts:161-170
BgError(id) ==
    /\ bg[id].state = "spawning"
    /\ bg' = [bg EXCEPT ![id].state = "failed"]
    /\ runningProcesses' = runningProcesses \ {id}
    /\ replies' = replies \cup {Reply("background", FALSE, id)}
    /\ UNCHANGED listing
    /\ UNCHANGED <<policyVars, req, engineRest, inputVars>>

\* the background process ends; executeBackground registers no handler for
\* 'exit' or 'close' (commands.ts:141-173)
BgExit(id) ==
    /\ bg[id].state = "running"
    /\ bg' = [bg EXCEPT ![id].state = "exited"]
    /\ UNCHANGED <<runningProcesses, replies, listing>>
    /\ UNCHANGED <<policyVars, req, engineRest, inputVars>>

\* UnifiedCommandExecutor.killProcess, commands.ts:218-250
ExecutorKill(id) ==
    /\ IF id \notin runningProcesses
       THEN /\ replies' = replies \cup {Reply("kill", FALSE, id)}
            /\ UNCHANGED <<bg, runningProcesses>>
       ELSE /\ \E ignores \in BOOLEAN :
                 bg' = [bg EXCEPT ![id] =
                          [@ EXCEPT !.killedById = TRUE,
                                    !.term = IF bg[id].state \in {"spawning", "running"}
                                                /\ bg[id].term = "no"
                                             THEN (IF ignores THEN "ignored" ELSE "fatal")
                                             ELSE @]]
            /\ runningProcesses' = runningProcesses \ {id}
            /\ replies' = replies \cup {Reply("kill", TRUE, id)}
    /\ UNCHANGED listing
    /\ UNCHANGED <<policyVars, req, engineRest, inputVars>>

\* listProcesses, commands.ts:255-257
ListProcesses ==
    /\ listing' = [ids  |-> runningProcesses,
                    live |-> {id \in 1..Len(bg) : bg[id].state \in {"spawning", "running"}}]
    /\ UNCHANGED <<runningProcesses, bg, replies>>
    /\ UNCHANGED <<policyVars, req, engineRest, inputVars>>

ExecutorInit ==
    /\ PolicyIdle
    /\ EngineIdle
    /\ ExecutorIdle
    /\ InputIdle
    /\ req = [r \in Requests |-> [NoRequest EXCEPT !.st = "done"]]

ExecutorNext ==
    \/ ExecuteBackground
    \/ \E id \in 1..Len(bg) : BgSpawned(id)
    \/ \E id \in 1..Len(bg) : BgError(id)
    \/ \E id \in 1..Len(bg) : BgExit(id)
    \/ \E id \in 1..UnknownId : ExecutorKill(id)
    \/ ListProcesses

\* one request alone, over every kind of block
DispatchInit ==
    /\ PolicyIdle
    /\ EngineIdle
    /\ ExecutorIdle
    /\ InputIdle
    /\ \E t1 \in DispatchTexts :
          req = [r \in Requests |->
                    IF r = "r1" THEN [NoRequest EXCEPT !.text = t1, !.ops = Ops(t1)]
                    ELSE [NoRequest EXCEPT !.st = "done"]]

DispatchNext ==
    \/ \E r \in Requests : JsonInvalid(r)
    \/ \E r \in Requests : JsonMalformed(r)
    \/ \E r \in Requests : JsonExecute(r)
    \/ \E r \in Requests : JsonKill(r)
    \/ \E r \in Requests : JsonList(r)
    \/ \E r \in Requests : PlainExecute(r)
    \/ \E r \in Requests : Return(r)
    \/ \E id \in DOMAIN children : ChildClose(id)
    \/ \E id \in DOMAIN children : ChildError(id)
    \/ \E t \in timers : TimeoutFire(t)
    \/ \E t \in timers : GraceFire(t)
    \/ Tick

vars ==
    <<command, validation, activeProcesses, processCounter, children, timers, req,
      signals, skipped, runningProcesses, bg, replies, listing, parser, workdir,
      chain, retry>>

Spec == Init /\ [][Next]_vars

DispatchSpec == DispatchInit /\ [][DispatchNext]_vars

ExecutorSpec == ExecutorInit /\ [][ExecutorNext]_vars

PolicyInit ==
    /\ command \in PolicyInputs
    /\ validation = Idle
    /\ EngineIdle
    /\ ExecutorIdle
    /\ InputIdle
    /\ req = [r \in Requests |-> NoRequest]

ValidateCall ==
    /\ validation = Idle
    /\ validation' = validateCommand(command)
    /\ UNCHANGED command
    /\ UNCHANGED <<req, engineRest, executorVars, inputVars>>

PolicyNext == ValidateCall

PolicySpec == PolicyInit /\ [][PolicyNext]_vars

(***************************************************************************)
(* The two regex loops of executeTerminalCommands step by step             *)
(* (engine.ts:344-353 and 456-462): each exec() of a global regex starts   *)
(* at the lastIndex of the regex object and leaves the end of the match,   *)
(* or 0 when nothing matches, in it.  Positions are block numbers.  Two    *)
(* calls read the same text; between two exec() of one call the other call *)
(* can run, because the loops await the command of each match.             *)
(***************************************************************************)
LSLA == <<"l", "s", " ", "-", "l", "a">>

PWD == <<"p", "w", "d">>

HASHCOMMENT == <<"#", " ", "c", "o", "m", "m", "e", "n", "t">>

WHOAMI == <<"w", "h", "o", "a", "m", "i">>

PADDED == <<" ", "l", "s", "\t">>

ParserBlocks ==
    { J("execute", LS, "absent", 0, 0, FALSE),
      J("list_processes", NoCmd, "absent", 0, 0, TRUE),
      P(<<LSLA, PWD, HASHCOMMENT, WHOAMI>>),
      P(<<BLANK, RMRF, COMMENT>>),
      P(<<COMMENT, PADDED, BLANK, PWD>>),
      P(<<LS>>) }

ParserTexts == SeqsUpTo(ParserBlocks, MaxBlocks)

Calls == {"c1", "c2"}

RECURSIVE Join(_)
Join(lines) ==
    IF lines = <<>> THEN <<>>
    ELSE IF Len(lines) = 1 THEN lines[1]
    ELSE lines[1] \o <<"\n">> \o Join(Tail(lines))

\* String.prototype.split('\n')
RECURSIVE split(_)
split(s) ==
    IF \A i \in 1..Len(s) : s[i] # "\n" THEN <<s>>
    ELSE LET i == CHOOSE k \in 1..Len(s) : s[k] = "\n" /\ \A j \in 1..(k - 1) : s[j] # "\n"
         IN  <<SubSeq(s, 1, i - 1)>> \o split(SubSeq(s, i + 1, Len(s)))

\* match[1] of simpleTerminalRegex: the text between the fences
Captured(b) == IF b.form = "plain" THEN Join(b.body) ELSE JsonText(b)

\* engine.ts:457-461
PlainCommands(raw) ==
    LET commands == SelectSeq(split(trim(raw)), KeepLine)
    IN  [i \in 1..Len(commands) |-> trim(commands[i])]

JsonOp(text, b) ==
    [src |-> "json", block |-> b, op |-> text[b].op, cmd |-> text[b].cmd,
     wd |-> text[b].wd, timeout |-> text[b].timeout, pid |-> text[b].pid]

\* executeTerminalCommand(cleanCmd) has no options, engine.ts:462
PlainOps(text, b) ==
    [l \in 1..Len(PlainCommands(Captured(text[b]))) |->
        [src |-> "plain", block |-> b, op |-> "execute",
         cmd |-> PlainCommands(Captured(text[b]))[l],
         wd |-> "absent", timeout |-> 0, pid |-> 0]]

RegexOwnerShared(c) == "module"

\* the regex literals are evaluated inside the function, engine.ts:344-345:
\* each call has its own two regex objects
RegexOwner(c) == c

Regexes == (Calls \cup {"module"}) \X {"json", "plain"}

JsonMatches(text) == {b \in 1..Len(text) : text[b].form = "json"}

PlainMatches(text) == {b \in 1..Len(text) : text[b].form = "plain" \/ text[b].lines}

\* RegExp.prototype.exec of a regex with the g flag: the first match after
\* lastIndex, 0 for null
ExecNext(matches, lastIndex) ==
    IF \E b \in matches : b > lastIndex
    THEN CHOOSE b \in matches : b > lastIndex /\ \A x \in matches : x > lastIndex => b <= x
    ELSE 0

\* one turn of the loop of engine.ts:350
JsonExec(c) ==
    /\ parser.calls[c].phase = "json"
    /\ LET x == <<RegexOwner(c), "json">>
           b == ExecNext(JsonMatches(parser.text), parser.lastIndex[x])
       IN  parser' = [parser EXCEPT
                        !.lastIndex[x] = b,
                        !.calls[c] = IF b = 0 THEN [@ EXCEPT !.phase = "plain"]
                                     ELSE [@ EXCEPT !.ops = Append(@, JsonOp(parser.text, b))]]
    /\ UNCHANGED <<policyVars, req, engineRest, executorVars, workdir, chain, retry>>

\* one turn of the loop of engine.ts:456
PlainExec(c) ==
    /\ parser.calls[c].phase = "plain"
    /\ LET x == <<RegexOwner(c), "plain">>
           b == ExecNext(PlainMatches(parser.text), parser.lastIndex[x])
       IN  parser' = [parser EXCEPT
                        !.lastIndex[x] = b,
                        !.calls[c] = IF b = 0 THEN [@ EXCEPT !.phase = "done"]
                                     ELSE [@ EXCEPT !.ops = @ \o PlainOps(parser.text, b)]]
    /\ UNCHANGED <<policyVars, req, engineRest, executorVars, workdir, chain, retry>>

ParserInit ==
    /\ PolicyIdle
    /\ EngineIdle
    /\ ExecutorIdle
    /\ workdir = NoDir /\ chain = NoChain /\ retry = NoRetry
    /\ req = [r \in Requests |-> [NoRequest EXCEPT !.st = "done"]]
    /\ \E t \in ParserTexts :
          parser = [text |-> t,
                    lastIndex |-> [x \in Regexes |-> 0],
                    calls |-> [c \in Calls |-> [phase |-> "json", ops |-> <<>>]]]

ParserNext ==
    \/ \E c \in Calls : JsonExec(c)
    \/ \E c \in Calls : PlainExec(c)

ParserSpec == ParserInit /\ [][ParserNext]_vars

(***************************************************************************)
(* validateWorkingDir (engine.ts:114-128) and the call of it in            *)
(* executeTerminalCommand (engine.ts:156-168).  A path is a list of        *)
(* segments, absolute or relative to the directory of the process.         *)
(***************************************************************************)
HOMESEG == <<"h", "o", "m", "e">>

USERSEG == <<"u">>

OTHERSEG == <<"u", "2">>

TMPSEG == <<"t", "m", "p">>

VARSEG == <<"v", "a", "r">>

ETCSEG == <<"e", "t", "c">>

DOTDOT == <<".", ".">>

SegNames == {HOMESEG, USERSEG, OTHERSEG, TMPSEG, VARSEG, ETCSEG, DOTDOT}

MaxSegs == 3

\* os.homedir()
homeDir == <<HOMESEG, USERSEG>>

\* process.cwd()
processCwd == <<HOMESEG, USERSEG, <<"a", "p", "p">> >>

DirInputs ==
    {[kind |-> k, abs |-> TRUE, segs |-> <<>>] : k \in {"absent", "nonstring"}}
    \cup {[kind |-> "path", abs |-> a, segs |-> p] :
             a \in BOOLEAN, p \in SeqsUpTo(SegNames, MaxSegs)}

RECURSIVE Normalize(_, _)
Normalize(segs, acc) ==
    IF segs = <<>> THEN acc
    ELSE IF Head(segs) = DOTDOT
    THEN Normalize(Tail(segs), IF acc = <<>> THEN <<>> ELSE SubSeq(acc, 1, Len(acc) - 1))
    ELSE Normalize(Tail(segs), Append(acc, Head(segs)))

\* path.resolve(workingDir); workingDir defaults to TERMINAL_BASE_DIR, which is
\* os.homedir() unless the environment sets it (engine.ts:63, 136)
resolve(d) ==
    IF d.kind = "absent" THEN Normalize(homeDir, <<>>)
    ELSE Normalize(IF d.abs THEN d.segs ELSE processCwd \o d.segs, <<>>)

RECURSIVE PathString(_)
PathString(segs) ==
    IF segs = <<>> THEN <<>> ELSE <<"/">> \o Head(segs) \o PathString(Tail(segs))

\* the test of engine.ts:120, on the text of the path
Escapes(resolvedPath) ==
    LET str == IF resolvedPath = <<>> THEN <<"/">> ELSE PathString(resolvedPath)
    IN  /\ ~ startsWith(str, PathString(homeDir))
        /\ ~ startsWith(str, PathString(<<TMPSEG>>))
        /\ ~ startsWith(str, PathString(<<VARSEG, TMPSEG>>))

\* path.resolve throws on a value that is not a string and the catch rethrows;
\* a path that escapes is only reported with console.warn (engine.ts:120-122)
validateWorkingDir(d) ==
    IF d.kind = "nonstring"
    THEN [threw |-> TRUE, path |-> <<>>, warned |-> FALSE]
    ELSE [threw |-> FALSE, path |-> resolve(d), warned |-> Escapes(resolve(d))]

\* executeTerminalCommand(LS, {workingDir}), engine.ts:131-168: the throw of
\* validateWorkingDir leaves the function, otherwise the child gets the
\* returned path as cwd
ExecuteIn ==
    /\ workdir.status = "idle"
    /\ validateCommand(LS).safe
    /\ LET v == validateWorkingDir(workdir.input)
       IN  workdir' = [workdir EXCEPT
                         !.status = IF v.threw THEN "threw" ELSE "spawned",
                         !.cwd = v.path,
                         !.warned = v.warned]
    /\ UNCHANGED <<policyVars, req, engineRest, executorVars, parser, chain, retry>>

WorkDirInit ==
    /\ PolicyIdle
    /\ EngineIdle
    /\ ExecutorIdle
    /\ parser = NoParse /\ chain = NoChain /\ retry = NoRetry
    /\ req = [r \in Requests |-> [NoRequest EXCEPT !.st = "done"]]
    /\ \E d \in DirInputs : workdir = [NoDir EXCEPT !.status = "idle", !.input = d]

WorkDirNext == ExecuteIn

WorkDirSpec == WorkDirInit /\ [][WorkDirNext]_vars

(***************************************************************************)
(* executeCommand and UnifiedCommandExecutor.executeSequence,              *)
(* commands.ts:425-478 and 313-327, on a command string made of commands   *)
(* joined by ' && '.  Each command runs through execute (commands.ts:37-   *)
(* 118), which never throws: a command that exits with a code other than 0 *)
(* gives a result with success false.                                      *)
(***************************************************************************)
AMP == <<" ", "&", "&", " ">>

MaxCommands == 3

ChainCommands == {LS, NOSUCH, PADDED}

ChainInputs == UNION {[1..m -> ChainCommands] : m \in 1..MaxCommands}

\* Array.prototype.join(sep)
RECURSIVE JoinWith(_, _)
JoinWith(parts, sep) ==
    IF parts = <<>> THEN <<>>
    ELSE IF Len(parts) = 1 THEN parts[1]
    ELSE parts[1] \o sep \o JoinWith(Tail(parts), sep)

\* String.prototype.split(sep), commands.ts:459
RECURSIVE splitBy(_, _)
splitBy(s, sep) ==
    LET at == {i \in 1..(Len(s) - Len(sep) + 1) : SubSeq(s, i, i + Len(sep) - 1) = sep}
    IN  IF at = {} THEN <<s>>
        ELSE LET i == CHOOSE k \in at : \A j \in at : k <= j
             IN  <<SubSeq(s, 1, i - 1)>> \o splitBy(SubSeq(s, i + Len(sep), Len(s)), sep)

\* executeCommand up to the call of executeSequence or execute,
\* commands.ts:431, 458-460, 473
ExecuteCommand ==
    /\ chain.st = "idle"
    /\ chain.commandString # <<>>
    /\ LET cmd == trim(chain.commandString)
           parts == splitBy(cmd, AMP)
       IN  chain' = [chain EXCEPT
               !.st = "run",
               !.chained = includes(cmd, AMP),
               !.commands = IF includes(cmd, AMP)
                            THEN [i \in 1..Len(parts) |-> trim(parts[i])]
                            ELSE <<cmd>>,
               !.k = 1]
    /\ UNCHANGED <<policyVars, req, engineRest, executorVars, parser, workdir, retry>>

\* the next command of the loop enters execute, commands.ts:316-317, 53, 85
SequenceExecute ==
    /\ chain.st = "run"
    /\ chain' = [chain EXCEPT !.st = "await", !.started = Append(@, chain.k)]
    /\ UNCHANGED <<policyVars, req, engineRest, executorVars, parser, workdir, retry>>

BreaksNever(result, continueOnError) == FALSE

\* if (!result.success && !options.continueOnError) break, commands.ts:321
Breaks(result, continueOnError) == ~ result.success /\ ~ continueOnError

\* execAsync settles, execute returns its result (commands.ts:85-117) and the
\* loop goes on or returns (commands.ts:318-326)
SequenceResult ==
    /\ chain.st = "await"
    /\ LET finalCommand == trim(chain.commands[chain.k]) IN
       \E end \in Ends(NoChild, finalCommand) :
          LET result == [command |-> finalCommand, success |-> end.code = "0"]
              over == Breaks(result, chain.continueOnError) \/ chain.k = Len(chain.commands)
          IN  chain' = [chain EXCEPT !.results = Append(@, result),
                                     !.st = IF over THEN "done" ELSE "run",
                                     !.k = IF over THEN @ ELSE @ + 1]
    /\ UNCHANGED <<policyVars, req, engineRest, executorVars, parser, workdir, retry>>

ChainInit ==
    /\ PolicyIdle
    /\ EngineIdle
    /\ ExecutorIdle
    /\ parser = NoParse /\ workdir = NoDir /\ retry = NoRetry
    /\ req = [r \in Requests |-> [NoRequest EXCEPT !.st = "done"]]
    /\ \E input \in ChainInputs, c \in BOOLEAN :
          chain = [NoChain EXCEPT !.input = input,
                                  !.commandString = JoinWith(input, AMP),
                                  !.continueOnError = c]

ChainNext ==
    \/ ExecuteCommand
    \/ SequenceExecute
    \/ SequenceResult

ChainSpec == ChainInit /\ [][ChainNext]_vars

(***************************************************************************)
(* retryWithBackoff, engine.ts:801-825, around the closure of              *)
(* generateResponse (engine.ts:839-853, the same in 898-912 and 967-981).  *)
(* saves[i] is the state of the insertMany the i-th invocation started for *)
(* the user's message ("none" when it did not get that far).               *)
(***************************************************************************)
MAX_RETRIES == 3

BASE_DELAY == 1000

RetryCounts == 1..MAX_RETRIES

BaseDelays == {BASE_DELAY, 2 * BASE_DELAY}

LastAttemptNever(attempt, maxRetries) == attempt = maxRetries

\* if (attempt === maxRetries - 1), engine.ts:814
LastAttempt(attempt, maxRetries) == attempt = maxRetries - 1

\* baseDelay * Math.pow(2, attempt), engine.ts:818
Delay(baseDelay, attempt) == baseDelay * 2 ^ attempt

\* the catch of engine.ts:811-821 for the error of the invocation in progress
Catch(cur, stage) ==
    LET error == [call |-> cur.calls, stage |-> stage]
        failed == [cur EXCEPT !.outcomes = Append(@, "failed"),
                              !.errors = Append(@, error)]
    IN  IF LastAttempt(cur.attempt, cur.maxRetries)
        THEN [failed EXCEPT !.st = "thrown", !.thrown = error]
        ELSE [failed EXCEPT !.st = "wait",
                            !.waits = Append(@, Delay(cur.baseDelay, cur.attempt))]

\* fn() is invoked (engine.ts:810): buildPromptWithMemory, which rethrows the
\* errors of the store (engine.ts:577), then saveChats is started without
\* being awaited (840-841) and the provider is called (843)
Invoke ==
    /\ retry.st = "attempt"
    /\ retry.attempt < retry.maxRetries
    /\ \E built \in BOOLEAN :
          LET called == [retry EXCEPT !.calls = @ + 1] IN
          retry' = IF built
                   THEN [called EXCEPT !.st = "provider", !.saves = Append(@, "pending")]
                   ELSE Catch([called EXCEPT !.saves = Append(@, "none")], "prompt")
    /\ UNCHANGED <<policyVars, req, engineRest, executorVars, parser, workdir, chain>>

\* an insertMany of the user's message settles (engine.ts:509), whatever has
\* become of the invocation that started it
SaveSettles(i) ==
    /\ i \in 1..Len(retry.saves)
    /\ retry.saves[i] = "pending"
    /\ \E stored \in BOOLEAN :
          retry' = [retry EXCEPT !.saves[i] = IF stored THEN "stored" ELSE "rejected"]
    /\ UNCHANGED <<policyVars, req, engineRest, executorVars, parser, workdir, chain>>

\* the call of the provider settles, engine.ts:843-848
ProviderReplies ==
    /\ retry.st = "provider"
    /\ \E ok \in BOOLEAN :
          retry' = IF ok THEN [retry EXCEPT !.st = "awaitSave"]
                   ELSE Catch(retry, "provider")
    /\ UNCHANGED <<policyVars, req, engineRest, executorVars, parser, workdir, chain>>

\* await savePromise, engine.ts:850
AwaitSave ==
    /\ retry.st = "awaitSave"
    /\ retry.saves[retry.calls] # "pending"
    /\ retry' = IF retry.saves[retry.calls] = "stored"
                THEN [retry EXCEPT !.st = "process"]
                ELSE Catch(retry, "save")
    /\ UNCHANGED <<policyVars, req, engineRest, executorVars, parser, workdir, chain>>

\* processAIResponse, engine.ts:778-798, whose last step stores the reply and
\* rethrows the errors of the store (795, 512); then fn returns and
\* retryWithBackoff returns its value (810)
Process ==
    /\ retry.st = "process"
    /\ \E ok \in BOOLEAN :
          retry' = IF ok
                   THEN [retry EXCEPT !.st = "returned",
                                      !.outcomes = Append(@, "ok"),
                                      !.errors = Append(@, NoError),
                                      !.value = retry.calls,
                                      !.assistantStored = @ + 1]
                   ELSE Catch(retry, "process")
    /\ UNCHANGED <<policyVars, req, engineRest, executorVars, parser, workdir, chain>>

\* the setTimeout of engine.ts:820 runs and the loop goes to the next attempt
BackoffElapsed ==
    /\ retry.st = "wait"
    /\ retry' = [retry EXCEPT !.st = "attempt", !.attempt = @ + 1]
    /\ UNCHANGED <<policyVars, req, engineRest, executorVars, parser, workdir, chain>>

RetryInit ==
    /\ PolicyIdle
    /\ EngineIdle
    /\ ExecutorIdle
    /\ parser = NoParse /\ workdir = NoDir /\ chain = NoChain
    /\ req = [r \in Requests |-> [NoRequest EXCEPT !.st = "done"]]
    /\ \E m \in RetryCounts, d \in BaseDelays :
          retry = [NoRetry EXCEPT !.st = "attempt", !.maxRetries = m, !.baseDelay = d]

RetryNext ==
    \/ Invoke
    \/ \E i \in 1..Len(retry.saves) : SaveSettles(i)
    \/ ProviderReplies
    \/ AwaitSave
    \/ Process
    \/ BackoffElapsed

RetrySpec == RetryInit /\ [][RetryNext]_vars

(***************************************************************************)
(* Two requests that both run commands against the one registry and the   *)
(* one processCounter of the module (engine.ts:70-71).                     *)
(***************************************************************************)
CounterBlocks ==
    { P(<<LS>>),
      J("execute", RMRF, "absent", 0, 0, FALSE),
      J("interactive", LS, "absent", 0, 0, FALSE) }

CounterInit ==
    /\ PolicyIdle
    /\ EngineIdle
    /\ ExecutorIdle
    /\ InputIdle
    /\ \E t1 \in SeqsUpTo(CounterBlocks, MaxBlocks), t2 \in SeqsUpTo(CounterBlocks, 1) :
          req = [r \in Requests |->
                    LET t == IF r = "r1" THEN t1 ELSE t2
                    IN  [NoRequest EXCEPT !.text = t, !.ops = Ops(t)]]

CounterNext ==
    \/ \E r \in Requests : JsonExecute(r)
    \/ \E r \in Requests : PlainExecute(r)
    \/ \E r \in Requests : Return(r)
    \/ \E id \in DOMAIN children : ChildClose(id)
    \/ \E t \in timers : TimeoutFire(t)
    \/ \E t \in timers : GraceFire(t)
    \/ Tick

CounterSpec == CounterInit /\ [][CounterNext]_vars

(***************************************************************************)
(* Progress.  The event loop runs every callback that is due: a timer      *)
(* whose delay has passed, the continuation of a dispatch loop, the end of *)
(* a process that was sent a signal it dies of.  Nothing makes a process   *)
(* that was sent no such signal end.                                       *)
(***************************************************************************)
LiveBlocks ==
    { J("execute", LS, "absent", 0, 0, FALSE),
      J("interactive", LS, "absent", 0, 0, FALSE),
      J("list_processes", NoCmd, "absent", 0, 0, FALSE),
      P(<<LS>>) }

LiveInit ==
    /\ PolicyIdle
    /\ EngineIdle
    /\ ExecutorIdle
    /\ InputIdle
    /\ \E t1 \in SeqsUpTo(LiveBlocks, 1), t2 \in ConcurrentTexts :
          req = [r \in Requests |->
                    LET t == IF r = "r1" THEN t1 ELSE t2
                    IN  [NoRequest EXCEPT !.text = t, !.ops = Ops(t)]]

LiveFairness ==
    /\ WF_vars(Tick)
    /\ WF_vars(\E t \in timers : TimeoutFire(t) \/ GraceFire(t) \/ KillGraceFire(t))
    /\ \A r \in Requests :
          WF_vars(JsonExecute(r) \/ JsonKill(r) \/ JsonList(r) \/ PlainExecute(r) \/ Return(r))
    /\ WF_vars(\E id \in DOMAIN children : Fatal(children[id]) /\ ChildClose(id))

LiveSpec == LiveInit /\ [][Next]_vars /\ LiveFairness

\* C1: every command whose lower-cased, trimmed text contains a deny-list entry
\* (compared case-insensitively) is rejected by validateCommand.
C1_DenyListRejects ==
    validation # Idle =>
        \A k \in 1..Len(DANGEROUS_COMMANDS) :
            includes(trim(toLowerCase(command)), toLowerCase(DANGEROUS_COMMANDS[k]))
                => validation.safe = FALSE

\* the deny-list entry written with capitals (chmod -R 777 /) met in a command
\* of another case, and rejected
C1_Witness ==
    /\ validation # Idle
    /\ validation.safe = FALSE
    /\ validation.pattern = 10
    /\ ~ includes(command, DANGEROUS_COMMANDS[10])

(***************************************************************************)
(* Properties                                                              *)
(***************************************************************************)
Spawned == {id \in DOMAIN children : children[id].state # "none"}

LastResult(r) == req[r].results[Len(req[r].results)]

\* an operation that reaches executeTerminalCommand
RunsCommand(op) ==
    \/ op.src = "plain"
    \/ op.src = "json" /\ op.op \in {"execute", "interactive"} /\ op.cmd # NoCmd

PolicyRejects(op) == ~ validateCommand(op.cmd).safe \/ op.wd = "nonstring"

PolicyReason(op) ==
    IF ~ validateCommand(op.cmd).safe THEN validateCommand(op.cmd).reason
    ELSE "Terminal command error: Invalid working directory"

\* C2: the step that handles a command the safety policy rejects (unsafe
\* command, or working directory that does not resolve), in the structured or
\* the plain form, appends one non-success result carrying the policy's reason,
\* spawns no child and leaves activeProcesses unchanged.
C2_PolicyRejection ==
    [][\A r \in Requests :
          (HasOp(r) /\ RunsCommand(CurOp(r)) /\ PolicyRejects(CurOp(r)) /\ req'[r] # req[r])
          => /\ Len(req'[r].results) = Len(req[r].results) + 1
             /\ SubSeq(req'[r].results, 1, Len(req[r].results)) = req[r].results
             /\ LastResult(r)'.success = FALSE
             /\ LastResult(r)'.stderr = PolicyReason(CurOp(r))
             /\ req'[r].st # "threw"
             /\ activeProcesses' = activeProcesses
             /\ Spawned' = Spawned
             /\ timers' = timers]_vars

\* a plain-form command on the deny-list and a structured command with a working
\* directory that does not resolve have both been answered
C2_Witness ==
    \E r \in Requests : \E i, j \in 1..Len(req[r].results) :
        /\ req[r].ops[i].src = "plain"
        /\ ~ validateCommand(req[r].ops[i].cmd).safe
        /\ req[r].results[i].stderr = "Dangerous command detected"
        /\ req[r].ops[j].src = "json"
        /\ req[r].ops[j].wd = "nonstring"
        /\ req[r].results[j].success = FALSE

\* C3 (as claimed): an execute operation whose command is still running when
\* timeoutMs ends gets exitCode null and success false, and its child is not
\* running after timeoutMs plus the grace window.
C3_Original ==
    /\ \A r \in Requests : \A i \in 1..Len(req[r].results) :
          (req[r].ops[i].op = "execute" /\ req[r].results[i].timedOut)
          => (req[r].results[i].exitCode = "null" /\ req[r].results[i].success = FALSE)
    /\ \A id \in DOMAIN children :
          (Running(id) /\ children[id].mode = "exec" /\ children[id].timedOut)
          => children[id].age <= children[id].timeout + GRACE_MS

\* C4 (as claimed): a process killed by id that is still running when the grace
\* window of the kill has passed has been sent SIGKILL.
C4_Original ==
    \A id \in DOMAIN children :
        (Running(id) /\ children[id].explicitKill /\ children[id].graceOver)
        => children[id].killed

C6_Original ==
    \A r \in Requests :
        req[r].st = "done" =>
            \A i, j \in 1..Len(req[r].results) :
                i < j => req[r].results[i].block <= req[r].results[j].block

\* C7: a dispatch never throws, and it returns one result per operation (no
\* result for no operation).
C7_Total ==
    \A r \in Requests :
        /\ req[r].st # "threw"
        /\ req[r].st = "done" => Len(req[r].results) = Len(Ops(req[r].text))
        /\ Len(req[r].results) <= Len(Ops(req[r].text))

\* a returned dispatch of a command that timed out and of a directive that was
\* invalid or rejected
C7_Witness ==
    \E r \in Requests :
        /\ req[r].st = "done"
        /\ Len(req[r].results) = 2
        /\ \E i \in 1..2 : req[r].results[i].timedOut
        /\ \E i \in 1..2 :
              req[r].results[i].stderr \in {"Dangerous command detected",
                                            "Kill operation requires processId"}

InvalidInput(op) ==
    /\ op.src = "json"
    /\ \/ op.op \in {"execute", "interactive"} /\ op.cmd = NoCmd
       \/ op.op = "kill" /\ op.pid = 0
       \/ op.op = ""
       \/ op.op \notin {"execute", "interactive", "kill", "list_processes", "malformed", ""}

\* C8: the step that handles an invalid structured directive appends one result
\* with success false and a message, spawns nothing, leaves activeProcesses
\* unchanged and leaves the dispatch running on the next operation.
C8_InvalidInput ==
    [][\A r \in Requests :
          (HasOp(r) /\ InvalidInput(CurOp(r)) /\ req'[r] # req[r])
          => /\ Len(req'[r].results) = Len(req[r].results) + 1
             /\ SubSeq(req'[r].results, 1, Len(req[r].results)) = req[r].results
             /\ LastResult(r)'.success = FALSE
             /\ LastResult(r)'.stderr # ""
             /\ activeProcesses' = activeProcesses
             /\ Spawned' = Spawned
             /\ processCounter' = processCounter
             /\ req'[r].k = req[r].k + 1
             /\ req'[r].st = IF req'[r].k <= Len(req[r].ops) THEN "run" ELSE "done"]_vars

\* an invalid directive was answered and the command after it ran to its end
C8_Witness ==
    \E r \in Requests : \E i, j \in 1..Len(req[r].results) :
        /\ i < j
        /\ InvalidInput(req[r].ops[i])
        /\ req[r].results[i].success = FALSE
        /\ RunsCommand(req[r].ops[j])
        /\ req[r].results[j].success = TRUE

\* C9 (as claimed): a background operation with a command gets a result with
\* success true and the processId of a process that was spawned.
C9_Original ==
    \A r \in Requests : \A i \in 1..Len(req[r].results) :
        (req[r].ops[i].op = "background" /\ req[r].ops[i].cmd # NoCmd)
        => /\ req[r].results[i].success = TRUE
           /\ req[r].results[i].processId \in Spawned

\* C10 (as claimed): the entry of a tracked process is in the registry from
\* its spawn until it ends, is killed by id or fails, and no entry remains for a
\* process that has ended (executor of commands.ts and registry of engine.ts).
C10_Original ==
    /\ \A id \in 1..Len(bg) :
          /\ bg[id].state \in {"exited", "failed"} => id \notin runningProcesses
          /\ (bg[id].state \in {"spawning", "running"} /\ ~ bg[id].killedById)
                => id \in runningProcesses
    /\ listing.ids \subseteq listing.live
    /\ \A id \in DOMAIN children :
          /\ children[id].state = "exited" => id \notin activeProcesses
          /\ (Running(id) /\ ~ children[id].explicitKill) => id \in activeProcesses

\* what killProcess answers for an id that is not in activeProcesses
KillsAbsent(r) ==
    /\ HasOp(r)
    /\ CurOp(r).src = "json"
    /\ CurOp(r).op = "kill"
    /\ CurOp(r).pid # 0
    /\ CurOp(r).pid \notin activeProcesses

\* C11: the step that handles a kill whose processId is not in activeProcesses
\* (never registered, already exited, or already killed) appends one result with
\* success false whose message contains "not found" whatever the case, sends no
\* signal and leaves activeProcesses unchanged.
C11_KillAbsent ==
    [][\A r \in Requests :
          (KillsAbsent(r) /\ req'[r] # req[r])
          => /\ Len(req'[r].results) = Len(req[r].results) + 1
             /\ LastResult(r)'.success = FALSE
             /\ includes(toLowerCase(LastResult(r)'.stdout),
                         <<"n", "o", "t", " ", "f", "o", "u", "n", "d">>)
             /\ signals' = signals
             /\ activeProcesses' = activeProcesses
             /\ children' = children
             /\ timers' = timers]_vars

\* kill was answered "not found" for an id that was never registered, for one
\* whose process had exited and for one that had been killed before
C11_Witness ==
    \E r \in Requests : \E i \in 1..Len(req[r].results) :
        /\ req[r].ops[i].op = "kill"
        /\ req[r].results[i].success = FALSE
        /\ includes(req[r].results[i].stdout, NotFoundMessage)
        /\ 1 \in DOMAIN children
        /\ children[1].state = "exited"
        /\ children[1].explicitKill

AllResults == UNION {{req[r].results[i] : i \in 1..Len(req[r].results)} : r \in Requests}

\* C12 (as claimed): in every result success is true exactly when exitCode is
\* 0, and the result of a process that a signal ended (timeout or kill) has
\* exitCode null and success false.
C12_Original ==
    \A res \in AllResults :
        /\ res.success <=> res.exitCode = "0"
        /\ res.bySignal => (res.exitCode = "null" /\ ~ res.success)

\* C13 (as claimed): the captured stdout of a result is never longer than
\* MAX_OUTPUT_SIZE, and a command that wrote more than that and exited 0 has
\* success true.
C13_Original ==
    \A res \in AllResults :
        /\ res.captured <= MAX_OUTPUT_SIZE
        /\ (res.produced > MAX_OUTPUT_SIZE /\ ~ res.bySignal) => res.success

\* the results of the operations whose command names no program
NotFoundResults ==
    UNION {{req[r].results[i] : i \in {k \in 1..Len(req[r].results) :
                                           /\ RunsCommand(req[r].ops[k])
                                           /\ req[r].ops[k].cmd = NOSUCH}}
           : r \in Requests}

\* C18 (as claimed): the result of a command that could not be started
\* (command not found), in either mode, has success false, exitCode -1 and an
\* error message in stderr, and its processId is not in activeProcesses.
C18_Original ==
    \A res \in NotFoundResults :
        ~ res.bySignal =>
            /\ res.success = FALSE
            /\ res.exitCode = "-1"
            /\ res.stderr # ""
            /\ res.processId \notin activeProcesses

\* C14: within one dispatch the operations run one after the other: the number
\* of results is the number of operations already handled, the only child of
\* the dispatch that can be running is the one of the current operation, which
\* the dispatch is waiting for, and a dispatch that has returned has handled
\* every operation, whatever the earlier results were.
C14_Sequential ==
    \A r \in Requests :
        /\ Len(req[r].results) = req[r].k - 1
        /\ req[r].st \in {"run", "await", "done"}
        /\ req[r].st = "done" => req[r].k = Len(req[r].ops) + 1
        /\ \A id \in DOMAIN children :
              (Running(id) /\ children[id].owner = r)
              => /\ children[id].op = req[r].k
                 /\ req[r].st = "await"
                 /\ req[r].wait = id
        /\ req[r].st = "await" => Running(req[r].wait)

\* the first operation failed and the dispatch is waiting for the child of the
\* second one
C14_Witness ==
    \E r \in Requests :
        /\ req[r].st = "await"
        /\ req[r].k = 2
        /\ req[r].results[1].success = FALSE
        /\ Running(req[r].wait)
        /\ children[req[r].wait].op = 2

IsBlank(l) == \A i \in 1..Len(l) : l[i] \in WhiteSpace

IsComment(l) ==
    \E i \in 1..Len(l) : l[i] = "#" /\ \A j \in 1..(i - 1) : l[j] \in WhiteSpace

IsCommandLine(l) == ~ IsBlank(l) /\ ~ IsComment(l)

\* the commands a plain block is to yield: its lines that are neither blank nor
\* comments, in line order
Expected(lines) ==
    LET keep == SelectSeq(lines, IsCommandLine)
    IN  [i \in 1..Len(keep) |-> trim(keep[i])]

\* the plain-form operations a call extracted from block b
OpsOfBlock(c, b) ==
    LET OfBlock(o) == o.src = "plain" /\ o.block = b
    IN  SelectSeq(parser.calls[c].ops, OfBlock)

\* C15: a call that has read the text has extracted, from every plain block, one
\* execute operation with default options per line that is neither blank nor a
\* comment (first non-space character '#'), in line order.
C15_PlainLines ==
    parser # NoParse =>
        \A c \in Calls : \A b \in 1..Len(parser.text) :
            (parser.calls[c].phase = "done" /\ parser.text[b].form = "plain")
            => /\ [i \in 1..Len(OpsOfBlock(c, b)) |-> OpsOfBlock(c, b)[i].cmd]
                     = Expected(parser.text[b].body)
               /\ \A i \in 1..Len(OpsOfBlock(c, b)) :
                     /\ OpsOfBlock(c, b)[i].op = "execute"
                     /\ OpsOfBlock(c, b)[i].wd = "absent"
                     /\ OpsOfBlock(c, b)[i].timeout = 0

\* the block with the lines ls -la, pwd, # comment, whoami has yielded the three
\* commands ls -la, pwd, whoami
C15_Witness ==
    /\ parser # NoParse
    /\ \E c \in Calls : \E b \in 1..Len(parser.text) :
          /\ parser.calls[c].phase = "done"
          /\ parser.text[b] = P(<<LSLA, PWD, HASHCOMMENT, WHOAMI>>)
          /\ [i \in 1..Len(OpsOfBlock(c, b)) |-> OpsOfBlock(c, b)[i].cmd]
                = <<LSLA, PWD, WHOAMI>>

\* C19: two calls that read the same text, in any interleaving of their loops,
\* extract the same operations in the same order: what one call leaves in its
\* regex objects does not reach the other.
C19_Deterministic ==
    parser # NoParse =>
        /\ \A c \in Calls :
              parser.calls[c].phase = "done" => parser.calls[c].ops = Ops(parser.text)
        /\ \A c, d \in Calls :
              (parser.calls[c].phase = "done" /\ parser.calls[d].phase = "done")
              => parser.calls[c].ops = parser.calls[d].ops

\* both calls have read a text with a structured and a plain block
C19_Witness ==
    /\ parser # NoParse
    /\ \A c \in Calls : parser.calls[c].phase = "done"
    /\ \E c \in Calls : \E i, j \in 1..Len(parser.calls[c].ops) :
          /\ parser.calls[c].ops[i].src = "json"
          /\ parser.calls[c].ops[j].src = "plain"

HasPrefix(segs, root) == Len(root) <= Len(segs) /\ SubSeq(segs, 1, Len(root)) = root

\* the directory lies in the home directory, /tmp or /var/tmp
InsideSafeRoots(segs) ==
    \/ HasPrefix(segs, homeDir)
    \/ HasPrefix(segs, <<TMPSEG>>)
    \/ HasPrefix(segs, <<VARSEG, TMPSEG>>)

\* C16 (as claimed): no command is spawned with a working directory outside the
\* home directory, /tmp and /var/tmp.
C16_Original ==
    workdir.status = "spawned" => InsideSafeRoots(workdir.cwd)

\* C17 (as claimed): validateWorkingDir fails exactly when the path cannot be
\* resolved (it is not a string); for every other path the command is spawned
\* in the resolved absolute path, also when that path escapes the safe roots,
\* in which case a warning is logged.
C17_Original ==
    workdir.status \in {"spawned", "threw"} =>
        /\ workdir.status = "threw" <=> workdir.input.kind = "nonstring"
        /\ workdir.status = "spawned" =>
              /\ workdir.cwd = resolve(workdir.input)
              /\ \A i \in 1..Len(workdir.cwd) : workdir.cwd[i] # DOTDOT
              /\ ~ InsideSafeRoots(workdir.cwd) => workdir.warned

\* C20 (as claimed): a process that was spawned and has not ended, and has not
\* been sent a signal it dies of, still has its entry in the registry (engine
\* and executor); a kill by id does not drop the entry of a live process.
C20_Original ==
    /\ \A id \in DOMAIN children :
          (Running(id) /\ ~ Fatal(children[id])) => id \in activeProcesses
    /\ \A id \in 1..Len(bg) :
          (bg[id].state \in {"spawning", "running"} /\ bg[id].term # "fatal")
          => id \in runningProcesses

\* the results one request holds for block b of its text
ResultsOfBlock(r, b) ==
    LET OfBlock(res) == res.block = b
    IN  SelectSeq(req[r].results, OfBlock)

\* C21 (as claimed): a structured block whose body is not JSON has, once the
\* dispatch has returned, exactly one result, which is a failure carrying the
\* parse-error message; the blocks after it have been handled.
C21_Original ==
    \A r \in Requests :
        req[r].st = "done" =>
            \A b \in 1..Len(req[r].text) :
                (req[r].text[b].form = "json" /\ req[r].text[b].op = "malformed")
                => /\ Len(ResultsOfBlock(r, b)) = 1
                   /\ ResultsOfBlock(r, b)[1].success = FALSE
                   /\ ResultsOfBlock(r, b)[1].stderr
                         = "Terminal command error: JSON parse error"
                   /\ \A a \in (b + 1)..Len(req[r].text) : Len(ResultsOfBlock(r, a)) >= 1

\* C22 (as claimed): a block whose body is a JSON object is handled as a
\* structured directive only: no result of the plain form belongs to it.
C22_Original ==
    \A r \in Requests : \A i \in 1..Len(req[r].results) :
        req[r].results[i].src = "plain"
            => req[r].text[req[r].results[i].block].form = "plain"

\* the processIds carried by the results, with the place of each result
ResultIds ==
    UNION {{<<r, i, req[r].results[i].processId>> :
               i \in {k \in 1..Len(req[r].results) : req[r].results[k].processId # 0}}
           : r \in Requests}

\* C23: every id the registry holds was handed out by the counter, the id of
\* each call is new (larger than every id handed out before, to a spawn or to
\* a rejected operation, by any request), and no two results carry the same id.
C23_UniqueIds ==
    /\ [](/\ activeProcesses \subseteq 1..processCounter
          /\ DOMAIN children = 1..processCounter
          /\ \A x, y \in ResultIds : x[3] = y[3] => x = y)
    /\ [][/\ processCounter' >= processCounter
          /\ \A id \in activeProcesses' \ activeProcesses :
                /\ id \notin DOMAIN children
                /\ id > processCounter
                /\ \A x \in ResultIds : x[3] # id]_vars

\* two requests have a live entry each, after an operation that was rejected
\* had taken an id
C23_Witness ==
    /\ Cardinality(activeProcesses) = 2
    /\ \E a, b \in activeProcesses : children[a].owner # children[b].owner
    /\ \E id \in DOMAIN children :
          children[id].state = "none" /\ \A a \in activeProcesses : id < a

\* C24 (as claimed): every execute or interactive operation that spawned a
\* process eventually produces its result, whatever kills concurrent requests
\* issue and whether or not the process ignores SIGTERM.
C24_Original ==
    \A r \in Requests : (req[r].st = "await") ~> (req[r].st # "await")

\* the first word of a command: what stands before its first white space
LeadingToken(s) ==
    LET ws == {i \in 1..Len(s) : s[i] \in WhiteSpace}
    IN  IF ws = {} THEN s
        ELSE SubSeq(s, 1, (CHOOSE i \in ws : \A k \in ws : i <= k) - 1)

\* C25 (as claimed): validateCommand rejects a command as a system-account
\* mutation exactly when the first word of its trimmed, lower-cased text is
\* passwd, usermod, userdel or groupmod, and a command that matches no rule
\* is safe.
C25_Original ==
    validation # Idle =>
        LET lowerCommand == trim(toLowerCase(command))
            account == LeadingToken(lowerCommand) \in systemCommands
            denied  == \E k \in 1..Len(DANGEROUS_COMMANDS) :
                          includes(lowerCommand, toLowerCase(DANGEROUS_COMMANDS[k]))
            escalation == \E e \in EscalationPatterns : includes(lowerCommand, e)
        IN  /\ (validation.reason = "System modification commands require explicit permission")
                <=> account
            /\ (~ denied /\ ~ escalation /\ ~ account) => validation.safe

\* C26 (as claimed): the timeout a spawned command runs under never exceeds
\* MAX_COMMAND_TIMEOUT, and no process runs longer than that without having
\* been sent SIGTERM.
C26_Original ==
    \A id \in DOMAIN children :
        Running(id) =>
            /\ children[id].timeout <= MAX_COMMAND_TIMEOUT
            /\ children[id].age > MAX_COMMAND_TIMEOUT
                  => (children[id].term # "no" \/ children[id].killed)

\* C27: a chain of commands joined by ' && ' runs one command at a time, in
\* the order written; unless continueOnError is set the results are those of
\* the commands up to and including the first that failed, and no command
\* after it was started; with continueOnError every command has its result.
C27_StopsAtFirstFailure ==
    LET n == Len(chain.results) IN
    /\ Len(chain.started) - n \in {0, 1}
    /\ chain.started = [i \in 1..Len(chain.started) |-> i]
    /\ \A i \in 1..n : chain.results[i].command = trim(chain.input[i])
    /\ (chain.st = "done" /\ chain.chained) =>
          /\ Len(chain.started) = n
          /\ n <= Len(chain.input)
          /\ IF chain.continueOnError
             THEN n = Len(chain.input)
             ELSE /\ \A i \in 1..(n - 1) : chain.results[i].success
                  /\ n < Len(chain.input) => ~ chain.results[n].success

\* a chain of three commands that ended at its second command, which failed
C27_Witness ==
    /\ chain.st = "done"
    /\ chain.chained
    /\ ~ chain.continueOnError
    /\ Len(chain.input) = 3
    /\ Len(chain.results) = 2
    /\ chain.results[1].success
    /\ ~ chain.results[2].success

\* C29: retryWithBackoff invokes fn at most maxRetries times and never after an
\* invocation that succeeded, returns the value of the first success, waits
\* baseDelay * 2^k after the k-th failure (k from 0) when another attempt
\* follows, and throws the error of the last attempt once maxRetries
\* invocations have failed.
C29_Retry ==
    LET done == Len(retry.outcomes) IN
    /\ retry.calls <= retry.maxRetries
    /\ done \in {retry.calls, retry.calls - 1}
    /\ \A i \in 1..(retry.calls - 1) : retry.outcomes[i] = "failed"
    /\ retry.st = "returned" <=> (done > 0 /\ retry.outcomes[done] = "ok")
    /\ retry.st = "returned" => (retry.value = done /\ done = retry.calls)
    /\ \A k \in 1..Len(retry.waits) : retry.waits[k] = retry.baseDelay * 2 ^ (k - 1)
    /\ Len(retry.waits) =
          Cardinality({i \in 1..done : retry.outcomes[i] = "failed"})
          - (IF retry.st = "thrown" THEN 1 ELSE 0)
    /\ retry.st = "wait" => done = retry.calls
    /\ retry.st = "thrown" <=>
          (done = retry.maxRetries /\ \A i \in 1..done : retry.outcomes[i] = "failed")
    /\ retry.st = "thrown" =>
          (retry.thrown = retry.errors[retry.maxRetries]
           /\ retry.thrown.call = retry.maxRetries)

\* the third invocation succeeded after two failures and two waits
C29_Witness ==
    /\ retry.st = "returned"
    /\ retry.maxRetries = MAX_RETRIES
    /\ retry.calls = 3
    /\ retry.value = 3
    /\ retry.waits = <<retry.baseDelay, 2 * retry.baseDelay>>

\* C30 (as claimed): one generateResponse call stores the user's message at
\* most once, however many attempts retryWithBackoff makes.
C30_Original ==
    Cardinality({i \in 1..Len(retry.saves) : retry.saves[i] = "stored"}) <= 1

\* C28: the processId a result of executeTerminalCommand carries is not in the
\* registry once the result is returned, and a kill that comes later in the
\* same dispatch and names the processId of an earlier result reports that
\* the process was not found.
C28_ResultIdGone ==
    \A r \in Requests :
        \A i \in 1..Len(req[r].results) :
            /\ req[r].results[i].processId # 0
                  => req[r].results[i].processId \notin activeProcesses
            /\ (/\ req[r].ops[i].op = "kill"
                /\ req[r].ops[i].pid # 0
                /\ \E j \in 1..(i - 1) : req[r].results[j].processId = req[r].ops[i].pid)
                  => /\ ~ req[r].results[i].success
                     /\ includes(req[r].results[i].stdout, NotFoundMessage)

\* a command ran and returned its result under id 1, and the kill that follows
\* it in the same text and names id 1 was answered
C28_Witness ==
    \E r \in Requests :
        /\ Len(req[r].results) >= 2
        /\ req[r].results[1].processId = 1
        /\ req[r].results[1].success
        /\ req[r].ops[2].op = "kill"
        /\ req[r].ops[2].pid = 1
        /\ ~ req[r].results[2].success

====
